---- MODULE Spec2Model ----
(***************************************************************************)
(* CommandQueue (src/src/CommandQueue.js): queues of batched commands run  *)
(* synchronously (sync), asynchronously (async) or in parallel (parallel), *)
(* with close() terminating the children with SIGINT.                      *)
(*                                                                         *)
(* One action is one turn of the node event loop: a call made by the user  *)
(* (sync/async/parallel/run/close) or the 'close' event of a child         *)
(* process, together with every promise callback it triggers.  Callbacks   *)
(* of the deferred library run inside the turn that settles the promise    *)
(* (or on the next tick, before any process event), so a turn is atomic.   *)
(***************************************************************************)
EXTENDS Integers, Sequences, FiniteSets, TLC

\* Bounds of the model.
NumQueues == 2
MaxItems == 2
MaxBatches == 2
MaxRuns == 1
MaxCloses == 2
MaxReruns == 1       \* further calls of run() in the specification RerunSpec
MaxRerunProcs == 1   \* processes of the executions a further run() may follow

Queues == 1..NumQueues

\* The queue the user runs and closes.
Root == 1

\* Exit codes reported by the 'close' event of a child process: 0, non-zero,
\* or null (here -1) when the process was terminated by a signal.
NoCode == 0 - 1
ExitCodes == {0, 1, NoCode}

\* A work item: a command (a string for spawn) or a CommandQueue instance.
Command == [isQ |-> FALSE, id |-> 0]
QueueItem(q) == [isQ |-> TRUE, id |-> q]

\* isCommandQueue(child)
isCommandQueue(child) == child.isQ

VARIABLES
    queue,        \* m.queue of every CommandQueue: its batches {func, cmds}
    children,     \* m.children of every CommandQueue
    runDeferred,  \* m.runDeferred of every CommandQueue: a deferred, 0 = null
    defs,         \* every deferred created so far: its state and its then-callback
    procs,        \* every child process spawned so far
    started,      \* history: the items started so far, in the order of runCommand
    invoked,      \* history: the calls of the replaceable runCommand(cmd, ..., runType)
    sent,         \* the processes SIGINT was sent to in the last turn, in order
    threw,        \* the last call made by the user threw a TypeError
    nruns,        \* number of run() calls made by the user
    ncloses,      \* number of close() calls made by the user
    cancelled,    \* history: the run() promises the user called close() on
    inflight,     \* history: the processes that were running when close() was called
    appended      \* history: the batches appended to a queue after it was run

vars == <<queue, children, runDeferred, defs, procs, started, invoked, sent, threw, nruns,
          ncloses,
          cancelled, inflight, appended>>

\* The program state as one value, threaded through the calls of a turn.
\* ret is the promise returned by the last call, rets the promises collected
\* by a loop, exc is set while an exception propagates.
St == [queue |-> queue, children |-> children, runDeferred |-> runDeferred,
       defs |-> defs, procs |-> procs, started |-> started, invoked |-> invoked,
       sent |-> <<>>, exc |-> FALSE, ret |-> 0, rets |-> <<>>]

\* A then-callback: which closure it is (k) and the variables it closes over.
Callback(k, q, b, index, d) == [k |-> k, q |-> q, b |-> b, index |-> index, d |-> d]
NoThen == Callback("none", 0, 0, 0, 0)

\* deferred(): a new pending deferred.  kind, q, b and run record who made it:
\* the run() of queue q whose deferred is run, for its batch b.
NewDeferred(st, kind, q, b) ==
    [st EXCEPT !.defs = Append(@, [state |-> "pending", then |-> NoThen,
                                    waiting |-> 0, kind |-> kind, q |-> q,
                                    b |-> b, run |-> st.runDeferred[q]]),
               !.ret = Len(st.defs) + 1]

\* var v = ...; followed by the statements F of the function.
Bind(v, F(_)) == F(v)

\* A call that returned the state s, followed by the statements F of the
\* caller: they are skipped when the call threw.
Try(s, F(_)) == IF s.exc THEN s ELSE F(s)

\* A call that may come back to its caller: a then-callback called by the
\* promise library (op "then"), or the run() of a nested queue (op "run").
RECURSIVE Call(_, _)
RECURSIVE closeLoop(_, _, _)
RECURSIVE asyncLoop(_, _, _, _, _, _)
RECURSIVE groupLoop(_, _, _, _)

\* The promise library calls the then-callback cb: win (ok) or fail (~ok).
Fire(st, cb, ok) == Call(st, [op |-> "then", cb |-> cb, ok |-> ok, q |-> 0])

\* cmd.run() of the nested queue q, as called by runCommand.
cmdRun(st, q) == Call(st, [op |-> "run", cb |-> NoThen, ok |-> TRUE, q |-> q])

\* promise.then(win, fail): the callback is kept while the promise is pending
\* and called at once when it is already settled.
Then(st, d, cb) ==
    IF st.defs[d].state = "pending"
    THEN [st EXCEPT !.defs[d].then = cb]
    ELSE Fire(st, cb, st.defs[d].state = "resolved")

\* def.resolve() / def.reject() settling a deferred that is settled already.
Settle_Overwrite(st, d, ok) ==
    Fire([st EXCEPT !.defs[d].state = IF ok THEN "resolved" ELSE "rejected",
                    !.defs[d].then = NoThen],
         st.defs[d].then, ok)

\* def.resolve() (ok) / def.reject() (~ok): settles a pending deferred and
\* calls its callback; a settled deferred ignores it.
Settle(st, d, ok) ==
    IF st.defs[d].state # "pending"
    THEN st
    ELSE Fire([st EXCEPT !.defs[d].state = IF ok THEN "resolved" ELSE "rejected",
                         !.defs[d].then = NoThen],
              st.defs[d].then, ok)

\* child.process.kill('SIGTERM') in the place of SIGINT.
kill_SIGTERM(st, p) ==
    [st EXCEPT !.procs[p].kills = @ + 1, !.procs[p].signal = "SIGTERM",
               !.sent = Append(@, p)]

\* child.process.kill('SIGINT')
kill(st, p) ==
    [st EXCEPT !.procs[p].kills = @ + 1, !.procs[p].signal = "SIGINT",
               !.sent = Append(@, p)]

\* modelProto.close's loop going through the children that follow a queue
\* before it closes the children of that queue.
closeLoop_SiblingsFirst(st, q, i) ==
    IF i > Len(st.children[q])
    THEN st
    ELSE LET child == st.children[q][i]
         IN IF isCommandQueue(child)
            THEN closeLoop(closeLoop(st, q, i + 1), child.id, 1)
            ELSE closeLoop(IF ~st.procs[child.id].closed THEN kill(st, child.id) ELSE st,
                           q, i + 1)

\* modelProto.close's loop passing over the children that are queues.
closeLoop_Flat(st, q, i) ==
    IF i > Len(st.children[q])
    THEN st
    ELSE LET child == st.children[q][i]
         IN closeLoop(IF ~isCommandQueue(child) /\ ~st.procs[child.id].closed
                      THEN kill(st, child.id) ELSE st,
                      q, i + 1)

\* modelProto.close's loop sending SIGINT to the children that have closed too.
closeLoop_NoClosedCheck(st, q, i) ==
    IF i > Len(st.children[q])
    THEN st
    ELSE LET child == st.children[q][i]
         IN closeLoop(IF isCommandQueue(child)
                      THEN closeLoop(st, child.id, 1)
                      ELSE kill(st, child.id),
                      q, i + 1)

\* modelProto.close's loop with the test of child.closed inverted.
closeLoop_ClosedOnly(st, q, i) ==
    IF i > Len(st.children[q])
    THEN st
    ELSE LET child == st.children[q][i]
         IN closeLoop(IF isCommandQueue(child)
                      THEN closeLoop(st, child.id, 1)
                      ELSE IF st.procs[child.id].closed
                           THEN kill(st, child.id)
                           ELSE st,
                      q, i + 1)

\* modelProto.close's loop ending at the first child that has closed.
closeLoop_StopAtClosed(st, q, i) ==
    IF i > Len(st.children[q])
    THEN st
    ELSE LET child == st.children[q][i]
         IN IF isCommandQueue(child)
            THEN closeLoop(closeLoop(st, child.id, 1), q, i + 1)
            ELSE IF ~st.procs[child.id].closed
                 THEN closeLoop(kill(st, child.id), q, i + 1)
                 ELSE st

\* The loop of modelProto.close, from child i on.
closeLoop(st, q, i) ==
    IF i > Len(st.children[q])
    THEN st
    ELSE LET child == st.children[q][i]
             st1 == IF isCommandQueue(child)
                    THEN closeLoop(st, child.id, 1)
                    ELSE IF ~st.procs[child.id].closed
                         THEN kill(st, child.id)
                         ELSE st
         IN closeLoop(st1, q, i + 1)

\* modelProto.close leaving its loop after the first child.
close_FirstChild(st, q) ==
    IF st.children[q] = <<>>
    THEN st
    ELSE LET child == st.children[q][1]
         IN IF isCommandQueue(child)
            THEN closeLoop(st, child.id, 1)
            ELSE IF ~st.procs[child.id].closed THEN kill(st, child.id) ELSE st

\* modelProto.close: closes all children processes using SIGINT.
close(st, q) == closeLoop(st, q, 1)

\* The history entry of item i of batch b of queue q being started: id is the
\* process of a command, and the deferred of the run() of a queue.
Unit(st, q, b, i, isQ, id) ==
    [q |-> q, b |-> b, i |-> i, run |-> st.runDeferred[q], isQ |-> isQ, id |-> id]

\* The call of the replaceable runCommand that leaves out the run type.
unitRunner_NoRunType(st, q, b, i, runType) ==
    [st EXCEPT !.invoked = Append(@, [q |-> q, b |-> b, i |-> i,
                                      cmd |-> st.queue[q][b].cmds[i],
                                      runType |-> "undefined"])]

\* this.commandQueueInstance.runCommand(cmd, self.shell, self.shellFlag, runType):
\* the user replaceable function that creates the child process of item i of
\* batch b of queue q.
unitRunner(st, q, b, i, runType) ==
    [st EXCEPT !.invoked = Append(@, [q |-> q, b |-> b, i |-> i,
                                      cmd |-> st.queue[q][b].cmds[i],
                                      runType |-> runType])]

\* modelProto.runCommand returning, for a queue, a promise that is resolved
\* already instead of the promise of cmd.run().
runCommand_Detached(st, q, b, i, runType) ==
    LET cmd == st.queue[q][b].cmds[i] IN
    IF isCommandQueue(cmd)
    THEN Try(cmdRun([st EXCEPT !.children[q] = Append(@, cmd),
                               !.started = Append(@, Unit(st, q, b, i, TRUE, Len(st.defs) + 1))],
                    cmd.id),
             LAMBDA s1 :
                 LET s2 == NewDeferred(s1, "proc", q, b)
                 IN [Settle(s2, s2.ret, TRUE) EXCEPT !.ret = s2.ret])
    ELSE LET s1 == NewDeferred(unitRunner(st, q, b, i, runType), "proc", q, b)
             pid == Len(st.procs) + 1
             child == [closed |-> FALSE, kills |-> 0, signal |-> "none", code |-> NoCode, def |-> s1.ret]
         IN [s1 EXCEPT !.procs = Append(@, child),
                       !.children[q] = Append(@, [isQ |-> FALSE, id |-> pid]),
                       !.started = Append(@, Unit(st, q, b, i, FALSE, pid))]

\* modelProto.runCommand: runs item i of batch b of queue q.
runCommand(st, q, b, i, runType) ==
    LET cmd == st.queue[q][b].cmds[i] IN
    IF isCommandQueue(cmd)
    THEN cmdRun([st EXCEPT !.children[q] = Append(@, cmd),
                           !.started = Append(@, Unit(st, q, b, i, TRUE, Len(st.defs) + 1))],
                cmd.id)
    ELSE LET s1 == NewDeferred(unitRunner(st, q, b, i, runType), "proc", q, b)
             pid == Len(st.procs) + 1
             child == [closed |-> FALSE, kills |-> 0, signal |-> "none", code |-> NoCode, def |-> s1.ret]
         IN [s1 EXCEPT !.procs = Append(@, child),
                       !.children[q] = Append(@, [isQ |-> FALSE, id |-> pid]),
                       !.started = Append(@, Unit(st, q, b, i, FALSE, pid))]

\* runSync's runNext(index) resolving the batch when its last item is started.
syncNext_EarlyResolve(st, q, b, index, def) ==
    IF index < Len(st.queue[q][b].cmds)
    THEN Try(runCommand(st, q, b, index, "sync"),
             LAMBDA s1 : Then(s1, s1.ret, Callback("sync", q, b, index, def)))
    ELSE IF index = Len(st.queue[q][b].cmds)
    THEN Try(runCommand(st, q, b, index, "sync"), LAMBDA s1 : Settle(s1, def, TRUE))
    ELSE Settle(st, def, TRUE)

\* runSync's runNext(index), for the deferred def of batch b of queue q.
syncNext(st, q, b, index, def) ==
    IF index <= Len(st.queue[q][b].cmds)
    THEN Try(runCommand(st, q, b, index, "sync"),
             LAMBDA s1 : Then(s1, s1.ret, Callback("sync", q, b, index, def)))
    ELSE Settle(st, def, TRUE)

\* The loop of runAsync and runParallel ending one item early.
asyncLoop_SkipLast(st, q, b, i, promises, runType) ==
    IF i >= Len(st.queue[q][b].cmds)
    THEN [st EXCEPT !.rets = promises]
    ELSE Try(runCommand(st, q, b, i, runType),
             LAMBDA s1 : asyncLoop(s1, q, b, i + 1, Append(promises, s1.ret), runType))

\* The loop of runAsync and runParallel: promises.push(this.runCommand(cmds[i])).
asyncLoop(st, q, b, i, promises, runType) ==
    IF i > Len(st.queue[q][b].cmds)
    THEN [st EXCEPT !.rets = promises]
    ELSE Try(runCommand(st, q, b, i, runType),
             LAMBDA s1 : asyncLoop(s1, q, b, i + 1, Append(promises, s1.ret), runType))

\* deferred(p1, ..., pn) listening to each of its promises.
groupLoop(st, promises, i, g) ==
    IF i > Len(promises)
    THEN st
    ELSE groupLoop(Then(st, promises[i], Callback("member", 0, 0, i, g)),
                   promises, i + 1, g)

\* deferred.apply({}, promises): the promise of all of them.  With no promise
\* at all it is a bare deferred, which has no then(): ret = 0.
group(st, kind, q, b, promises) ==
    IF promises = <<>>
    THEN [st EXCEPT !.ret = 0]
    ELSE LET s1 == NewDeferred(st, kind, q, b)
             g == s1.ret
             s2 == [s1 EXCEPT !.defs[g].waiting = Len(promises)]
         IN [groupLoop(s2, promises, 1, g) EXCEPT !.ret = g]

\* modelProto.runAsync
runAsync(st, q, b) ==
    Try(asyncLoop(st, q, b, 1, <<>>, "async"),
        LAMBDA s1 : group(s1, "async", q, b, s1.rets))

\* runSync starting every item at once, as runAsync does.
runSync_AllAtOnce(st, q, b) ==
    Try(asyncLoop(st, q, b, 1, <<>>, "sync"),
        LAMBDA s1 :
            IF s1.rets = <<>>
            THEN LET s2 == NewDeferred(s1, "sync", q, b)
                 IN [Settle(s2, s2.ret, TRUE) EXCEPT !.ret = s2.ret]
            ELSE group(s1, "sync", q, b, s1.rets))

\* modelProto.runSync
runSync(st, q, b) ==
    LET s1 == NewDeferred(st, "sync", q, b)
    IN Try(syncNext(s1, q, b, 1, s1.ret), LAMBDA s2 : [s2 EXCEPT !.ret = s1.ret])

\* modelProto.runParallel
runParallel(st, q, b) ==
    Try(asyncLoop(st, q, b, 1, <<>>, "parallel"),
        LAMBDA s1 :
            LET s2 == NewDeferred(s1, "parallel", q, b)
                def == s2.ret
            IN Bind(group(s2, "all", q, b, s1.rets),
                    LAMBDA s3 :
                        IF s3.ret = 0
                        THEN [s3 EXCEPT !.exc = TRUE]
                        ELSE [Then(s3, s3.ret, Callback("parallel", q, b, 0, def))
                                 EXCEPT !.ret = def]))

\* batch.func.call(m, batch.cmds)
callFunc(st, q, b) ==
    CASE st.queue[q][b].func = "runSync" -> runSync(st, q, b)
      [] st.queue[q][b].func = "runAsync" -> runAsync(st, q, b)
      [] st.queue[q][b].func = "runParallel" -> runParallel(st, q, b)

\* proto.run's runNext(index) resolving only after a batch has been run.
runNext_AfterABatch(st, q, index) ==
    IF index <= Len(st.queue[q])
    THEN Try(callFunc(st, q, index),
             LAMBDA s1 :
                 IF s1.ret = 0 THEN [s1 EXCEPT !.exc = TRUE]
                 ELSE Then(s1, s1.ret, Callback("run", q, index, index, 0)))
    ELSE IF index = 1 THEN st
    ELSE Settle(st, st.runDeferred[q], TRUE)

\* proto.run's runNext(index)
runNext(st, q, index) ==
    IF index <= Len(st.queue[q])
    THEN Try(callFunc(st, q, index),
             LAMBDA s1 :
                 IF s1.ret = 0 THEN [s1 EXCEPT !.exc = TRUE]
                 ELSE Then(s1, s1.ret, Callback("run", q, index, index, 0)))
    ELSE Settle(st, st.runDeferred[q], TRUE)

\* proto.run starting the second batch without waiting for the first.
run_NoWait(st, q) ==
    LET s1 == NewDeferred(st, "run", q, 0)
        s2 == [s1 EXCEPT !.runDeferred[q] = s1.ret, !.children[q] = <<>>]
    IN Try(runNext(s2, q, 1),
           LAMBDA s3 : Try(runNext(s3, q, 2), LAMBDA s4 : [s4 EXCEPT !.ret = s1.ret]))

\* proto.run keeping the children of the run() before.
run_KeepChildren(st, q) ==
    LET s1 == NewDeferred(st, "run", q, 0)
        s2 == [s1 EXCEPT !.runDeferred[q] = s1.ret]
    IN Try(runNext(s2, q, 1), LAMBDA s3 : [s3 EXCEPT !.ret = s1.ret])

\* proto.run
run(st, q) ==
    LET s1 == NewDeferred(st, "run", q, 0)
        s2 == [s1 EXCEPT !.runDeferred[q] = s1.ret, !.children[q] = <<>>]
    IN Try(runNext(s2, q, 1), LAMBDA s3 : [s3 EXCEPT !.ret = s1.ret])

\* proto.run going on to the next batch after a failed one.
runThen_Always(st, cb, ok) == runNext(st, cb.q, cb.index + 1)

\* proto.run leaving m.runDeferred alone when a batch fails.
runThen_NoReject(st, cb, ok) ==
    IF ok THEN runNext(st, cb.q, cb.index + 1) ELSE st

\* proto.run, the callbacks of batch.func.call(m, batch.cmds).then:
\* runNext(index + 1) / m.runDeferred.reject()
runThen(st, cb, ok) ==
    IF ok THEN runNext(st, cb.q, cb.index + 1)
    ELSE Settle(st, st.runDeferred[cb.q], FALSE)

\* runSync going on to the next item after a failed one.
syncThen_Continue(st, cb, ok) == syncNext(st, cb.q, cb.b, cb.index + 1, cb.d)

\* runSync resolving its promise when an item fails.
syncThen_Swallow(st, cb, ok) ==
    IF ok THEN syncNext(st, cb.q, cb.b, cb.index + 1, cb.d)
    ELSE Settle(st, cb.d, TRUE)

\* runSync, the callbacks of self.runCommand(cmds[index]).then:
\* runNext(index + 1) / def.reject()
syncThen(st, cb, ok) ==
    IF ok THEN syncNext(st, cb.q, cb.b, cb.index + 1, cb.d)
    ELSE Settle(st, cb.d, FALSE)

\* deferred(p1, ..., pn) resolved by the first of its promises.
memberThen_First(st, cb, ok) == Settle(st, cb.d, ok)

\* deferred(p1, ..., pn) closing the children of its queue when it is rejected.
memberThen_Close(st, cb, ok) ==
    IF ~ok THEN Settle(close(st, st.defs[cb.d].q), cb.d, FALSE)
    ELSE IF st.defs[cb.d].state # "pending" THEN st
    ELSE IF st.defs[cb.d].waiting = 1 THEN Settle(st, cb.d, TRUE)
    ELSE [st EXCEPT !.defs[cb.d].waiting = @ - 1]

\* deferred(p1, ..., pn) hearing of one of its promises: it is resolved when
\* all of them are, and rejected by the first that is.
memberThen(st, cb, ok) ==
    IF ~ok THEN Settle(st, cb.d, FALSE)
    ELSE IF st.defs[cb.d].state # "pending" THEN st
    ELSE IF st.defs[cb.d].waiting = 1 THEN Settle(st, cb.d, TRUE)
    ELSE [st EXCEPT !.defs[cb.d].waiting = @ - 1]

\* runParallel resolving its promise in the failure callback too.
parallelThen_Resolve(st, cb, ok) ==
    IF ok THEN Settle(st, cb.d, TRUE)
    ELSE Settle(close(st, cb.q), cb.d, TRUE)

\* runParallel rejecting without self.close().
parallelThen_NoClose(st, cb, ok) == Settle(st, cb.d, ok)

\* runParallel, the callbacks of deferred.apply({}, promises).then:
\* def.resolve() / self.close(); def.reject()
parallelThen(st, cb, ok) ==
    IF ok THEN Settle(st, cb.d, TRUE)
    ELSE Settle(close(st, cb.q), cb.d, FALSE)

\* The then-callbacks of the program; an exception a callback throws is
\* caught by the promise library and goes no further.
Callbacks(st, cb, ok) ==
    LET st1 == CASE cb.k = "none" -> st
                 [] cb.k = "run" -> runThen(st, cb, ok)
                 [] cb.k = "sync" -> syncThen(st, cb, ok)
                 [] cb.k = "member" -> memberThen(st, cb, ok)
                 [] cb.k = "parallel" -> parallelThen(st, cb, ok)
    IN [st1 EXCEPT !.exc = FALSE]

\* The calls that may come back to their caller: see Fire and cmdRun.
Call(st, c) ==
    CASE c.op = "then" -> Callbacks(st, c.cb, c.ok)
      [] c.op = "run" -> run(st, c.q)

\* proto.close without m.runDeferred.reject().
protoClose_NoReject(st, q) == close(st, q)

\* proto.close doing nothing once the promise of run() is settled.
protoClose_OnlyPending(st, q) ==
    IF st.runDeferred[q] = 0
    THEN [close(st, q) EXCEPT !.exc = TRUE]
    ELSE IF st.defs[st.runDeferred[q]].state # "pending"
         THEN st
         ELSE Settle(close(st, q), st.runDeferred[q], FALSE)

\* proto.close: m.close(); m.runDeferred.reject(), a TypeError while
\* m.runDeferred is null.
protoClose(st, q) ==
    Bind(close(st, q),
         LAMBDA s1 :
             IF st.runDeferred[q] = 0
             THEN [s1 EXCEPT !.exc = TRUE]
             ELSE Settle(s1, st.runDeferred[q], FALSE))

\* The 'close' listener without its else branch: def.reject() is never called.
onClose_ResolveOnly(st, p, code) ==
    IF code = 0
    THEN Settle([st EXCEPT !.procs[p].closed = TRUE, !.procs[p].code = code],
                st.procs[p].def, TRUE)
    ELSE [st EXCEPT !.procs[p].closed = TRUE, !.procs[p].code = code]

\* The 'close' listener taking termination by a signal (code null) for success.
onClose_NullIsSuccess(st, p, code) ==
    Settle([st EXCEPT !.procs[p].closed = TRUE, !.procs[p].code = code],
           st.procs[p].def, code \in {0, NoCode})

\* The 'close' listener taking the child out of the children of its queue.
onClose_Remove(st, p, code) ==
    Settle([st EXCEPT !.procs[p].closed = TRUE, !.procs[p].code = code,
                      !.children[st.defs[st.procs[p].def].q] =
                          SelectSeq(@, LAMBDA c : c # [isQ |-> FALSE, id |-> p])],
           st.procs[p].def, code = 0)

\* childProcess.on('close', function(code) {...}) of process p
onClose(st, p, code) ==
    Settle([st EXCEPT !.procs[p].closed = TRUE, !.procs[p].code = code],
           st.procs[p].def, code = 0)


\* modelProto.areAllClosed looking into the children that are queues too.
RECURSIVE areAllClosed_Deep(_)
areAllClosed_Deep(q) ==
    \A i \in 1..Len(children[q]) :
        IF isCommandQueue(children[q][i])
        THEN areAllClosed_Deep(children[q][i].id)
        ELSE procs[children[q][i].id].closed

\* modelProto.areAllClosed
areAllClosed(q) ==
    \A i \in 1..Len(children[q]) :
        ~isCommandQueue(children[q][i]) => procs[children[q][i].id].closed

\* The processes that have not closed among the children of queue q and of
\* the queues among them.
RECURSIVE Outstanding(_)
Outstanding(q) ==
    UNION {IF isCommandQueue(children[q][i])
           THEN Outstanding(children[q][i].id)
           ELSE IF procs[children[q][i].id].closed THEN {} ELSE {children[q][i].id} :
           i \in 1..Len(children[q])}

----
\* The state after a turn that ended in state s.
Commit(s) ==
    /\ queue' = s.queue
    /\ children' = s.children
    /\ runDeferred' = s.runDeferred
    /\ defs' = s.defs
    /\ procs' = s.procs
    /\ started' = s.started
    /\ invoked' = s.invoked
    /\ sent' = s.sent
    /\ threw' = s.exc

\* new CommandQueue() for every queue
Init ==
    /\ queue = [q \in Queues |-> <<>>]
    /\ children = [q \in Queues |-> <<>>]
    /\ runDeferred = [q \in Queues |-> 0]
    /\ defs = <<>>
    /\ procs = <<>>
    /\ started = <<>>
    /\ invoked = <<>>
    /\ sent = <<>>
    /\ threw = FALSE
    /\ nruns = 0
    /\ ncloses = 0
    /\ cancelled = {}
    /\ inflight = {}
    /\ appended = {}

\* Queue r is an item of some batch.
Embedded(r) ==
    \E q \in Queues : \E b \in 1..Len(queue[q]) :
        \E i \in 1..Len(queue[q][b].cmds) : queue[q][b].cmds[i] = QueueItem(r)

\* The items the caller may pass to queue q: commands, and queues that are
\* not yet part of any queue (the caller keeps the queues a tree).
Items(q) == {Command} \cup {QueueItem(r) : r \in {r \in Queues : r > q /\ ~Embedded(r)}}

\* The arguments of sync(), async() and parallel().  async() and parallel()
\* are given at least one item: what deferred.apply({}, []) returns is decided
\* by the deferred library alone.
Arguments(q, func) ==
    {cmds \in UNION {[1..n -> Items(q)] : n \in 0..MaxItems} :
        /\ \A i, j \in 1..Len(cmds) : (i # j /\ cmds[i].isQ) => cmds[i] # cmds[j]
        /\ func # "runSync" => cmds # <<>>}

RECURSIVE SumLen(_, _)
SumLen(f, n) == IF n = 0 THEN 0 ELSE Len(f[n]) + SumLen(f, n - 1)

\* Number of batches added so far, over all queues.
NumBatches == SumLen(queue, NumQueues)

\* modelProto.batch putting the batch in front of the queue.
batch_Prepend(st, q, func, cmds) ==
    [st EXCEPT !.queue[q] = <<[func |-> func, cmds |-> cmds]>> \o @]

\* modelProto.batch
batch(st, q, func, cmds) ==
    [st EXCEPT !.queue[q] = Append(@, [func |-> func, cmds |-> cmds])]

\* The entry of the history for a batch appended now to queue q: its index,
\* the promise of the latest run() of q and whether that run() was pending.
\* A batch appended before the queue was ever run leaves no entry.
AppendedNow(q) ==
    IF runDeferred[q] = 0 THEN {}
    ELSE {[q |-> q, b |-> Len(queue[q]) + 1, run |-> runDeferred[q],
           during |-> defs[runDeferred[q]].state = "pending"]}

\* proto.sync / proto.async / proto.parallel
AddBatch(q, func) ==
    /\ NumBatches < MaxBatches
    /\ \E cmds \in Arguments(q, func) : Commit(batch(St, q, func, cmds))
    /\ appended' = appended \cup AppendedNow(q)
    /\ UNCHANGED <<nruns, ncloses, cancelled, inflight>>

Sync(q) == AddBatch(q, "runSync")
Async(q) == AddBatch(q, "runAsync")
Parallel(q) == AddBatch(q, "runParallel")

\* Nothing of an earlier run() is left: its promise is settled and every
\* process it started has closed.
Quiescent ==
    /\ runDeferred[Root] # 0 => defs[runDeferred[Root]].state # "pending"
    /\ \A p \in 1..Len(procs) : procs[p].closed

\* The user calls run() on the root queue, once per execution: not while an
\* earlier run() is still at work.
Run ==
    /\ nruns < MaxRuns
    /\ Quiescent
    /\ nruns' = nruns + 1
    /\ Commit(run(St, Root))
    /\ UNCHANGED <<ncloses, cancelled, inflight, appended>>

\* The user calls close() on the root queue.
Close ==
    /\ ncloses < MaxCloses
    /\ ncloses' = ncloses + 1
    /\ cancelled' = cancelled \cup ({runDeferred[Root]} \ {0})
    /\ inflight' = inflight \cup Outstanding(Root)
    /\ Commit(protoClose(St, Root))
    /\ UNCHANGED <<nruns, appended>>

\* The 'close' event of a child process.
ProcessClose(p) ==
    /\ ~procs[p].closed
    /\ \E code \in ExitCodes : Commit(onClose(St, p, code))
    /\ UNCHANGED <<nruns, ncloses, cancelled, inflight, appended>>

Next ==
    \/ \E q \in Queues : Sync(q)
    \/ \E q \in Queues : Async(q)
    \/ \E q \in Queues : Parallel(q)
    \/ Run
    \/ Close
    \/ \E p \in 1..Len(procs) : ProcessClose(p)

Spec == Init /\ [][Next]_vars

\* Every item is started at most once by a run() of its queue.
MaxProcs == MaxBatches * MaxItems * MaxRuns

\* A process that was sent SIGINT delivers its 'close' event.
KilledClose(p) ==
    /\ p <= Len(procs)
    /\ procs[p].kills > 0
    /\ ProcessClose(p)

\* The program with every signalled process eventually closing.
FairSpec == Spec /\ \A p \in 1..MaxProcs : WF_vars(KilledClose(p))

\* Process p was sent SIGINT and has not closed: KilledClose(p) is enabled.
KilledRunning(p) == p <= Len(procs) /\ procs[p].kills > 0 /\ ~procs[p].closed

\* The fairness of FairSpec stated on states.  KilledClose(p) is enabled
\* exactly when KilledRunning(p) holds, since the 'close' listener accepts
\* every exit code, and a KilledClose(p) step makes it false for good; so
\* weak fairness of KilledClose(p) says that KilledRunning(p) does not hold
\* forever.
LiveSpec == Spec /\ \A p \in 1..MaxProcs : []<>(~KilledRunning(p))

\* Process p has been started and has not delivered its 'close' event.
ProcessRunning(p) == p <= Len(procs) /\ ~procs[p].closed

\* The program with every process that is started eventually delivering its
\* 'close' event.  ProcessClose(p) is enabled exactly when ProcessRunning(p)
\* holds and makes it false for good, so this is weak fairness of every
\* ProcessClose(p), stated on states.
ClosingSpec == Spec /\ \A p \in 1..MaxProcs : []<>(~ProcessRunning(p))

\* The user calls run() on the root queue again, after an execution that is
\* over and has spawned at most MaxRerunProcs processes.
Rerun ==
    /\ nruns >= MaxRuns
    /\ nruns < MaxRuns + MaxReruns
    /\ Quiescent
    /\ Len(procs) <= MaxRerunProcs
    /\ nruns' = nruns + 1
    /\ Commit(run(St, Root))
    /\ UNCHANGED <<ncloses, cancelled, inflight, appended>>

\* The program with the root queue run again after an execution is over.
RerunSpec == Init /\ [][Next \/ Rerun]_vars

----
\* Vocabulary of the properties.

Units == 1..Len(started)
Deferreds == 1..Len(defs)

\* The outcome of a started item: that of its process ('close' with code 0),
\* or that of the promise of the nested queue's run().
Succeeded(u) ==
    IF started[u].isQ THEN defs[started[u].id].state = "resolved"
    ELSE procs[started[u].id].closed /\ procs[started[u].id].code = 0

Failed(u) ==
    IF started[u].isQ THEN defs[started[u].id].state = "rejected"
    ELSE procs[started[u].id].closed /\ procs[started[u].id].code # 0

Running(u) ==
    IF started[u].isQ THEN defs[started[u].id].state = "pending"
    ELSE ~procs[started[u].id].closed

\* The started items of batch b of queue q in the run() whose deferred is r.
UnitsOf(q, b, r) ==
    {u \in Units : started[u].q = q /\ started[u].b = b /\ started[u].run = r}

\* The promise of a whole batch.
BatchDeferreds == {d \in Deferreds : defs[d].kind \in {"sync", "async", "parallel"}}

\* The started items of the batch whose promise is d.
UnitsOfBatch(d) == UnitsOf(defs[d].q, defs[d].b, defs[d].run)

\* Every item of batch b of queue q was started in run r and has succeeded.
AllSucceeded(q, b, r) ==
    \A i \in 1..Len(queue[q][b].cmds) :
        \E u \in UnitsOf(q, b, r) : started[u].i = i /\ Succeeded(u)

\* The items started by the run() whose deferred is r, and by the runs of the
\* nested queues among them.
RECURSIVE UnitsUnderRun(_)
UnitsUnderRun(r) ==
    LET own == {u \in Units : started[u].run = r}
    IN own \cup UNION {UnitsUnderRun(started[u].id) : u \in {v \in own : started[v].isQ}}

\* The items of the batch whose promise is d, with the items of the nested
\* queues among them.
UnitsUnderBatch(d) ==
    UnitsOfBatch(d) \cup
    UNION {UnitsUnderRun(started[u].id) : u \in {v \in UnitsOfBatch(d) : started[v].isQ}}

\* The processes still running among a set of started items have been sent SIGINT.
RunningSignalled(us) ==
    \A u \in us : (~started[u].isQ /\ ~procs[started[u].id].closed)
                     => procs[started[u].id].kills >= 1

\* C1: when an item of a parallel batch fails (the batch's promise becomes
\* rejected), then in the state reached the run() of the queue is settled to
\* failure and every process still running of that batch, those of nested
\* queues included, has been sent SIGINT.
C1_ParallelFailureTerminatesSiblings ==
    [][\A d \in Deferreds :
          (defs[d].kind = "parallel" /\ defs[d].state = "pending"
              /\ defs'[d].state = "rejected")
          => /\ defs'[defs[d].run].state = "rejected"
             /\ RunningSignalled(UnitsUnderBatch(d))']_vars

\* A parallel batch has failed without close() ever being called, and a process
\* of a queue nested in it is still running, with SIGINT sent to it.
C1_Witness ==
    \E d \in Deferreds :
        /\ defs[d].kind = "parallel" /\ defs[d].state = "rejected"
        /\ ncloses = 0
        /\ \E u \in UnitsUnderBatch(d) :
              /\ started[u].q # defs[d].q
              /\ ~started[u].isQ
              /\ ~procs[started[u].id].closed
              /\ procs[started[u].id].kills = 1

\* C2: an item of batch b+1 of a queue is started only when every item of
\* batch b was started in the same run and has completed successfully.
C2_BatchesInAppendOrder ==
    \A u \in Units :
        started[u].b > 1 => AllSucceeded(started[u].q, started[u].b - 1, started[u].run)

\* An item of a second batch has been started, after a first batch of two items.
C2_Witness ==
    \E u \in Units :
        started[u].b = 2 /\ Len(queue[started[u].q][1].cmds) = 2

\* C3: when the promise of a batch is rejected, the run() of its queue is
\* settled to failure and no item of a later batch was started in that run.
C3_FailedBatchStopsQueue ==
    \A d \in BatchDeferreds :
        defs[d].state = "rejected"
        => /\ defs[defs[d].run].state = "rejected"
           /\ \A u \in Units :
                 (started[u].q = defs[d].q /\ started[u].run = defs[d].run)
                     => started[u].b <= defs[d].b

\* The first batch of a queue has failed, a second one follows it, and every
\* process has closed.
C3_Witness ==
    \E d \in BatchDeferreds :
        /\ defs[d].state = "rejected"
        /\ defs[d].b = 1
        /\ Len(queue[defs[d].q]) = 2
        /\ queue[defs[d].q][2].cmds # <<>>
        /\ \A p \in 1..Len(procs) : procs[p].closed

\* C4: in a sync batch, an item that failed is the last one started and the
\* batch's promise is rejected; the promise is resolved only when all the
\* items have succeeded.
C4_SyncStopsAtFirstFailure ==
    \A d \in BatchDeferreds :
        defs[d].kind = "sync"
        => /\ \A u \in UnitsOfBatch(d) :
                 Failed(u) => /\ defs[d].state = "rejected"
                              /\ \A v \in UnitsOfBatch(d) : started[v].i <= started[u].i
           /\ defs[d].state = "resolved" => AllSucceeded(defs[d].q, defs[d].b, defs[d].run)

\* The first item of a sync batch of two has failed, and every process has closed.
C4_Witness ==
    \E d \in BatchDeferreds :
        /\ defs[d].kind = "sync"
        /\ Len(queue[defs[d].q][defs[d].b].cmds) = 2
        /\ \E u \in UnitsOfBatch(d) : started[u].i = 1 /\ Failed(u)
        /\ \A p \in 1..Len(procs) : procs[p].closed

\* C5: the items of a sync batch are started in the order of the batch, each
\* one after the one before it has succeeded, and no two of them run together.
C5_SyncOneAtATime ==
    \A d \in BatchDeferreds :
        defs[d].kind = "sync"
        => \A u \in UnitsOfBatch(d) :
              /\ started[u].i > 1 =>
                    \E v \in UnitsOfBatch(d) :
                        v < u /\ started[v].i = started[u].i - 1 /\ Succeeded(v)
              /\ \A v \in UnitsOfBatch(d) :
                    (u # v) => (started[u].i # started[v].i /\ ~(Running(u) /\ Running(v)))

\* The second item of a sync batch is running.
C5_Witness ==
    \E d \in BatchDeferreds :
        /\ defs[d].kind = "sync"
        /\ \E u \in UnitsOfBatch(d) : started[u].i = 2 /\ Running(u)

AsyncFailsAtFirstFailure(d) ==
    (\E u \in UnitsOfBatch(d) : Failed(u)) => defs[d].state = "rejected"

\* The started item u, with the items of its run when it is a queue.
UnitsUnder(u) ==
    {u} \cup (IF started[u].isQ THEN UnitsUnderRun(started[u].id) ELSE {})

\* In this step the async batch d fails, and no process of its other items,
\* those that have not failed, is sent SIGINT or made to close.
AsyncFailureLeavesSiblings(d) ==
    (defs[d].state = "pending" /\ defs'[d].state = "rejected")
    => \A u \in UnitsOfBatch(d) :
          ~Failed(u)'
          => \A v \in UnitsUnder(u) :
                (~started[v].isQ /\ ~procs[started[v].id].closed)
                => /\ procs'[started[v].id].kills = procs[started[v].id].kills
                   /\ ~procs'[started[v].id].closed

\* C7 as claimed: an async batch fails when its first item fails, and the
\* failure sends no termination request to the other items, in any queue.
C7_AsyncFailureAsClaimed ==
    [][\A d \in Deferreds :
          defs[d].kind = "async"
          => (AsyncFailsAtFirstFailure(d)' /\ AsyncFailureLeavesSiblings(d))]_vars

\* The queue q is an item of a parallel batch.
InParallelBatch(q) ==
    \E r \in Queues : \E b \in 1..Len(queue[r]) :
        /\ queue[r][b].func = "runParallel"
        /\ \E i \in 1..Len(queue[r][b].cmds) : queue[r][b].cmds[i] = QueueItem(q)

\* Queue q or a queue it is nested in is an item of a parallel batch.
RECURSIVE UnderParallelBatch(_)
UnderParallelBatch(q) ==
    \/ InParallelBatch(q)
    \/ \E r \in Queues : \E b \in 1..Len(queue[r]) : \E i \in 1..Len(queue[r][b].cmds) :
          queue[r][b].cmds[i] = QueueItem(q) /\ UnderParallelBatch(r)

\* C7, amended: an async batch fails when its first item fails; the failure
\* sends no termination request to the other items unless the batch's queue
\* is nested, at some depth, in a parallel batch.
C7_AsyncFailureLeavesSiblings ==
    [][\A d \in Deferreds :
          defs[d].kind = "async"
          => /\ AsyncFailsAtFirstFailure(d)'
             /\ ~UnderParallelBatch(defs[d].q) => AsyncFailureLeavesSiblings(d)]_vars

\* An async batch has failed while another item of it is still running, with
\* no SIGINT sent to it.
C7_Witness ==
    \E d \in BatchDeferreds :
        /\ defs[d].kind = "async"
        /\ defs[d].state = "rejected"
        /\ \E u \in UnitsOfBatch(d) :
              ~started[u].isQ /\ ~procs[started[u].id].closed
                  /\ procs[started[u].id].kills = 0

\* Every process among the children of queue q, and of the queues among them,
\* has closed or has been sent SIGINT.
RECURSIVE ChildrenSignalled(_)
ChildrenSignalled(q) ==
    \A i \in 1..Len(children[q]) :
        IF isCommandQueue(children[q][i])
        THEN ChildrenSignalled(children[q][i].id)
        ELSE procs[children[q][i].id].closed \/ procs[children[q][i].id].kills >= 1

\* C8: when close() returns, every process of the queue's children that has
\* not closed has been sent SIGINT, and so for the children of nested queues.
C8_CloseSignalsAllOutstanding ==
    [][Close => ChildrenSignalled(Root)']_vars

\* close() was called and a process of a nested queue is still running, with
\* SIGINT sent to it.
C8_Witness ==
    /\ ncloses = 1
    /\ \E i \in 1..Len(children[Root]) :
          /\ isCommandQueue(children[Root][i])
          /\ \E j \in 1..Len(children[children[Root][i].id]) :
                LET c == children[children[Root][i].id][j]
                IN ~isCommandQueue(c) /\ ~procs[c.id].closed /\ procs[c.id].kills = 1

\* close() was called and a process among the children of the root queue,
\* to which SIGINT was sent, has not closed yet.
CancelledWhileRunning ==
    /\ ncloses > 0
    /\ \E i \in 1..Len(children[Root]) :
          LET c == children[Root][i]
          IN ~isCommandQueue(c) /\ ~procs[c.id].closed /\ procs[c.id].kills >= 1

\* C9: after close() on a queue with running items, a state is reached where
\* areAllClosed() is true and run() is settled to failure, when every process
\* that was sent SIGINT closes.
C9_CancelLeadsToAllClosed ==
    CancelledWhileRunning ~>
        (areAllClosed(Root) /\ runDeferred[Root] # 0
            /\ defs[runDeferred[Root]].state = "rejected")

\* C10: close() called while the promise of run() is pending rejects it in
\* the same turn.
C10_CloseRejectsRun ==
    [][(Close /\ runDeferred[Root] # 0 /\ defs[runDeferred[Root]].state = "pending")
          => defs'[runDeferred[Root]].state = "rejected"]_vars

\* After one close() the promise of run() is rejected while a process that
\* was sent SIGINT has not closed yet.
C10_Witness ==
    /\ ncloses = 1
    /\ runDeferred[Root] # 0
    /\ defs[runDeferred[Root]].state = "rejected"
    /\ \E p \in 1..Len(procs) : ~procs[p].closed /\ procs[p].kills = 1

\* The promises returned by run(), of the root queue and of nested queues.
RunDeferreds == {d \in Deferreds : defs[d].kind = "run"}

C12_CloseNeverThrows ==
    [][Close => ~threw']_vars

\* The run() of the root queue has completed: its promise is settled and no
\* process is left running.
Completed ==
    /\ runDeferred[Root] # 0
    /\ defs[runDeferred[Root]].state # "pending"
    /\ \A p \in 1..Len(procs) : procs[p].closed

\* C13: a close() made after run() has completed, or after an earlier close()
\* on the same run, sends no SIGINT and leaves the promise of run() and every
\* child as they are.
C13_CloseIdempotent ==
    [][(Close /\ runDeferred[Root] # 0
           /\ (Completed \/ runDeferred[Root] \in cancelled))
          => (procs' = procs /\ defs' = defs)]_vars

\* C14: a process is sent SIGINT at most once.
C14_SignalledAtMostOnce ==
    \A p \in 1..Len(procs) : procs[p].kills <= 1

\* C15: no SIGINT is sent to a process whose 'close' event has been received:
\* neither to one that had closed before the turn, nor to the one whose
\* 'close' event is the turn and makes its parallel batch close the others.
C15_NoSignalAfterClose ==
    [][\A p \in 1..Len(procs) :
          procs'[p].closed => procs'[p].kills = procs[p].kills]_vars

\* A parallel batch has failed by an item that was never sent SIGINT, while
\* another item of it, sent SIGINT by the batch, is still running; close()
\* was not called.
C15_Witness ==
    /\ ncloses = 0
    /\ \E d \in BatchDeferreds :
          /\ defs[d].kind = "parallel"
          /\ defs[d].state = "rejected"
          /\ \E u, v \in UnitsOfBatch(d) :
                /\ ~started[u].isQ /\ Failed(u) /\ procs[started[u].id].kills = 0
                /\ ~started[v].isQ /\ Running(v) /\ procs[started[v].id].kills = 1

\* The started items that are nested queues.
QueueUnits == {u \in Units : started[u].isQ}

\* The nested queue started as u is treated as one item by its batch: while
\* its run() is not resolved no later item of a sync batch is started and the
\* promise of the batch is not resolved.
NestedIsOneUnit(u) ==
    defs[started[u].id].state # "resolved"
    => /\ \A d \in BatchDeferreds :
             u \in UnitsOfBatch(d) => defs[d].state # "resolved"
       /\ queue[started[u].q][started[u].b].func = "runSync"
             => \A v \in UnitsOf(started[u].q, started[u].b, started[u].run) :
                   started[v].i <= started[u].i

\* The items of the nested queue started as u run in the order of that queue:
\* batch after batch, and one after the other in a sync batch.
NestedKeepsItsOrder(u) ==
    \A v \in Units :
        started[v].run = started[u].id
        => /\ started[v].b > 1
                 => AllSucceeded(started[v].q, started[v].b - 1, started[v].run)
           /\ (queue[started[v].q][started[v].b].func = "runSync" /\ started[v].i > 1)
                 => \E w \in Units :
                       /\ w < v
                       /\ started[w].run = started[v].run
                       /\ started[w].b = started[v].b
                       /\ started[w].i = started[v].i - 1
                       /\ Succeeded(w)

\* C16: a nested queue is one item whose outcome is that of its run(): a sync
\* batch starts the next item, and an async or parallel batch is resolved,
\* only when the run() of the nested queue is resolved, and the items of the
\* nested queue run in the nested queue's order.
C16_NestedQueueIsOneUnit ==
    \A u \in QueueUnits : NestedIsOneUnit(u) /\ NestedKeepsItsOrder(u)

\* The second item of a nested sync queue is running together with a sibling
\* of the nested queue in an async or parallel batch.
C16_Witness ==
    \E u \in QueueUnits : \E v, w \in Units :
        /\ queue[started[u].q][started[u].b].func # "runSync"
        /\ started[v].run = started[u].id /\ started[v].i = 2 /\ Running(v)
        /\ queue[started[v].q][started[v].b].func = "runSync"
        /\ started[w].run = started[u].run /\ started[w].b = started[u].b
        /\ w # u /\ Running(w)

\* A sync batch has started the item that follows a nested async queue.
C16_SyncWitness ==
    \E u \in QueueUnits : \E v \in Units :
        /\ queue[started[u].q][started[u].b].func = "runSync"
        /\ started[v].run = started[u].run /\ started[v].b = started[u].b
        /\ started[v].i = started[u].i + 1
        /\ \E w \in Units : started[w].run = started[u].id
                               /\ queue[started[w].q][started[w].b].func = "runAsync"

\* A process started by the nested queue's run() whose item is u, or by a
\* queue nested in it, has been sent SIGINT.
NestedTerminated(u) ==
    \E v \in UnitsUnderRun(started[u].id) :
        ~started[v].isQ /\ procs[started[v].id].kills >= 1

\* C17: terminating a nested queue, by close() of the parent or by the failure
\* of a sibling in a parallel batch, makes the run() of the nested queue
\* settle to failure: it is never settled to success once its processes have
\* been sent SIGINT.
C17_TerminatedNestedRunFails ==
    \A u \in QueueUnits :
        NestedTerminated(u) => defs[started[u].id].state # "resolved"

\* Every item of every batch of the queue of the run() whose promise is r was
\* started by that run and has succeeded.
AllBatchesSucceeded(r) ==
    \A b \in 1..Len(queue[defs[r].q]) : AllSucceeded(defs[r].q, b, r)

\* The user called close() during the run() whose promise is r.
CancelledRun(r) == r \in cancelled

\* A run() promise becomes resolved only when all the batches have succeeded
\* and the run was not cancelled.
SucceedsOnlyWhenAllSucceeded ==
    \A r \in RunDeferreds :
        (defs[r].state = "pending" /\ defs'[r].state = "resolved")
        => (AllBatchesSucceeded(r)' /\ ~CancelledRun(r))

\* When all the batches have succeeded, in a run that was not cancelled, the
\* promise of run() is resolved.
SucceedsWhenAllSucceeded ==
    \A r \in RunDeferreds :
        (AllBatchesSucceeded(r) /\ ~CancelledRun(r)) => defs[r].state = "resolved"

\* The failure of an item rejects the promise of its batch and the promise of
\* the run() of its queue.
FailurePropagates ==
    \A u \in Units :
        Failed(u)
        => /\ \A d \in BatchDeferreds : u \in UnitsOfBatch(d) => defs[d].state = "rejected"
           /\ defs[started[u].run].state = "rejected"

C18_FailureWitness ==
    /\ ncloses = 0
    /\ \E u \in Units : started[u].q # Root /\ Failed(u)

\* The async batches of the current run() of the root queue that have failed,
\* the promise of run() being rejected.
FailedAsyncBatches ==
    {d \in BatchDeferreds :
        /\ defs[d].kind = "async"
        /\ defs[d].q = Root
        /\ defs[d].run = runDeferred[Root]
        /\ defs[d].state = "rejected"
        /\ defs[runDeferred[Root]].state = "rejected"}

\* C19: a close() called after an async batch has failed and run() has
\* settled to failure sends SIGINT to every item of the batch that is still
\* running, the processes of nested queues included.
C19_CloseAfterAsyncFailure ==
    [][Close => \A d \in FailedAsyncBatches : RunningSignalled(UnitsUnderBatch(d))']_vars

\* An async batch has failed by an item that closed before close() was
\* called, and close() has sent SIGINT to another item of it, still running.
C19_Witness ==
    /\ ncloses = 1
    /\ \E d \in FailedAsyncBatches :
          \E u, v \in UnitsOfBatch(d) :
              /\ ~started[u].isQ /\ Failed(u) /\ procs[started[u].id].kills = 0
              /\ ~started[v].isQ /\ Running(v) /\ procs[started[v].id].kills = 1

\* The functions batched by sync(), async() and parallel().
Funcs == {"runSync", "runAsync", "runParallel"}

\* The step appends one batch of func to queue q: the earlier batches and the
\* other queues are as before, nothing is started, and children, the promise
\* of run() and the processes are unchanged.
AppendsOneBatch(q, func) ==
    /\ Len(queue'[q]) = Len(queue[q]) + 1
    /\ SubSeq(queue'[q], 1, Len(queue[q])) = queue[q]
    /\ queue'[q][Len(queue'[q])].func = func
    /\ \A r \in Queues \ {q} : queue'[r] = queue[r]
    /\ UNCHANGED <<children, runDeferred, defs, procs, started, invoked>>
    /\ ~threw'

\* C20: sync(), async() and parallel() append one batch of their discipline
\* at the end of the queue, start nothing and leave the children, the
\* promise of run() and the earlier batches unchanged.
C20_AddBatchAppendsOnly ==
    [][\A q \in Queues : \A func \in Funcs :
          AddBatch(q, func) => AppendsOneBatch(q, func)]_vars

\* A batch was appended to the root queue, after another one of a different
\* discipline, while a process started by run() is running.
C20_Witness ==
    /\ Len(queue[Root]) = 2
    /\ queue[Root][1].func # queue[Root][2].func
    /\ \E u \in Units : ~started[u].isQ /\ Running(u)
    /\ \A u \in Units : started[u].b = 1

\* The processes spawned so far.
Procs == 1..Len(procs)

\* C21: the promise of a command is resolved exactly when its process has
\* closed with code 0, and rejected exactly when it has closed with any other
\* code, null (termination by a signal) included.
C21_SuccessIffExitZero ==
    \A p \in Procs :
        /\ defs[procs[p].def].state = "resolved" <=> (procs[p].closed /\ procs[p].code = 0)
        /\ defs[procs[p].def].state = "rejected" <=> (procs[p].closed /\ procs[p].code # 0)

\* Three processes have closed: with code 0, with a non-zero code, and by
\* SIGINT without a code.
C21_Witness ==
    \E p1, p2, p3 \in Procs :
        /\ procs[p1].closed /\ procs[p1].code = 0
        /\ procs[p2].closed /\ procs[p2].code = 1
        /\ procs[p3].closed /\ procs[p3].code = NoCode /\ procs[p3].kills >= 1

\* The run type of the batches a batch function runs.
runTypeOf(func) ==
    CASE func = "runSync" -> "sync"
      [] func = "runAsync" -> "async"
      [] func = "runParallel" -> "parallel"

\* The command items started so far, in the order they were started.
StartedCommands == SelectSeq(started, LAMBDA x : ~x.isQ)

\* C22: the replaceable runCommand is called once for each command item
\* started, in the order the items are started, with the command of the item
\* and the run type of its batch; it is not called for a queue item.
C22_UnitRunnerPerCommand ==
    /\ Len(invoked) = Len(StartedCommands)
    /\ \A k \in 1..Len(invoked) :
           /\ invoked[k].q = StartedCommands[k].q
           /\ invoked[k].b = StartedCommands[k].b
           /\ invoked[k].i = StartedCommands[k].i
           /\ invoked[k].cmd = queue[invoked[k].q][invoked[k].b].cmds[invoked[k].i]
           /\ invoked[k].cmd = Command
           /\ invoked[k].runType = runTypeOf(queue[invoked[k].q][invoked[k].b].func)

\* A parallel batch holding a queue and a command was started: the command
\* of the nested queue's sync batch and the command of the parallel batch
\* were handed to runCommand, the queue item was not.
C22_Witness ==
    /\ \E u \in Units : started[u].isQ
    /\ \E j, k \in 1..Len(invoked) :
           /\ j < k
           /\ invoked[j].runType = "sync"
           /\ invoked[k].runType = "parallel"
    /\ Len(invoked) < Len(started)

Siblings(u) ==
    UNION {UnitsUnder(v) :
              v \in UnitsOf(started[u].q, started[u].b, started[u].run) \ {u}}

\* The batch function of the batch item u belongs to.
FuncOf(u) == queue[started[u].q][started[u].b].func

\* In this step item u fails, and in the state reached every process of its
\* siblings that is still running has been sent SIGINT.
FailureSignalsSiblings(u) ==
    (~Failed(u) /\ Failed(u)') => RunningSignalled(Siblings(u))'

CurrentUnits(q) ==
    SelectSeq(started, LAMBDA x : x.q = q /\ x.run = runDeferred[q] /\ x.run # 0)

\* The entry of m.children of a started item x: the queue itself for a queue
\* item, the child of the process for a command.
HandleOf(x) ==
    IF x.isQ THEN queue[x.q][x.b].cmds[x.i] ELSE [isQ |-> FALSE, id |-> x.id]

\* The started item x has completed with success.
Done(x) ==
    IF x.isQ THEN defs[x.id].state = "resolved"
    ELSE procs[x.id].closed /\ procs[x.id].code = 0

\* The batch of queue q that is active: the last one its current run() has
\* started an item of.
ActiveBatch(q) == CurrentUnits(q)[Len(CurrentUnits(q))].b

\* C25 as claimed: the children of a queue are handles of items of the
\* active batch only, and a handle leaves them when its process closes.
C25_OnlyActiveBatchHandles ==
    \A q \in Queues :
        /\ Len(children[q]) <= Len(CurrentUnits(q))
        /\ \A k \in 1..Len(children[q]) :
               /\ \E j \in 1..Len(CurrentUnits(q)) :
                      /\ children[q][k] = HandleOf(CurrentUnits(q)[j])
                      /\ CurrentUnits(q)[j].b = ActiveBatch(q)
               /\ ~isCommandQueue(children[q][k]) => ~procs[children[q][k].id].closed

\* C25, amended: the children of a queue are the handles of all the items its
\* current run() has started, in the order they were started; no handle
\* leaves them when its process closes or is sent SIGINT, and a handle of a
\* batch before the active one is that of an item that completed with success.
C25_ChildrenOfCurrentRun ==
    \A q \in Queues :
        /\ Len(children[q]) = Len(CurrentUnits(q))
        /\ \A k \in 1..Len(children[q]) :
               /\ children[q][k] = HandleOf(CurrentUnits(q)[k])
               /\ CurrentUnits(q)[k].b < ActiveBatch(q) => Done(CurrentUnits(q)[k])

\* The second batch of the root queue is active with a process running, and
\* the children still hold the handle of a process of the first batch, closed
\* with code 0.
C25_Witness ==
    /\ Len(children[Root]) >= 2
    /\ ActiveBatch(Root) = 2
    /\ \E k \in 1..Len(children[Root]) :
           /\ CurrentUnits(Root)[k].b = 1
           /\ ~isCommandQueue(children[Root][k])
           /\ procs[children[Root][k].id].closed
    /\ \E k \in 1..Len(children[Root]) :
           /\ CurrentUnits(Root)[k].b = 2
           /\ ~isCommandQueue(children[Root][k])
           /\ ~procs[children[Root][k].id].closed

\* The processes started by the current run() of queue q.
CurrentProcs(q) ==
    {started[u].id : u \in {v \in Units : /\ ~started[v].isQ
                                          /\ started[v].q = q
                                          /\ started[v].run = runDeferred[q]}}

\* The processes among the children of queue q.
ChildProcs(q) ==
    {children[q][k].id : k \in {j \in 1..Len(children[q]) : ~isCommandQueue(children[q][j])}}

\* C26: run() empties the children before the first batch is started: the
\* children of a queue hold no process of an earlier run() of it, a close()
\* sends SIGINT to processes of the current run() only, and areAllClosed()
\* tells whether the processes of the current run() have closed.
C26_RunResetsChildren ==
    /\ [](\A q \in Queues :
             /\ ChildProcs(q) \subseteq CurrentProcs(q)
             /\ areAllClosed(q) <=> \A p \in CurrentProcs(q) : procs[p].closed)
    /\ [][Close => \A p \in Procs :
                      procs'[p].kills # procs[p].kills
                          => \E q \in Queues : p \in CurrentProcs(q)]_vars

\* The root queue was run a second time: a process of the first run() has
\* closed and is not among the children, and a process of the second run()
\* is among them and was sent SIGINT by close().
C26_Witness ==
    /\ nruns = 2
    /\ \E p \in Procs : procs[p].closed /\ \A q \in Queues : p \notin ChildProcs(q)
    /\ \E p \in ChildProcs(Root) : ~procs[p].closed /\ procs[p].kills >= 1

\* C27: at most one batch of a queue is active at a time: two items of the
\* same queue that are running together are items of the same batch.
C27_OneActiveBatch ==
    \A u, v \in Units :
        (started[u].q = started[v].q /\ Running(u) /\ Running(v))
            => started[u].b = started[v].b

\* An item of the first batch of a queue has completed, and two items of its
\* second batch are running together.
C27_Witness ==
    \E u, v \in Units :
        /\ u # v
        /\ started[u].q = started[v].q
        /\ started[u].b = 2 /\ started[v].b = 2
        /\ Running(u) /\ Running(v)
        /\ \E w \in Units :
              started[w].q = started[u].q /\ started[w].b = 1 /\ ~Running(w)

HandleState(pr) ==
    IF pr.closed THEN "Closed"
    ELSE IF pr.kills >= 1 THEN "Terminated" ELSE "Running"

\* C29 as claimed: Closed and Terminated are absorbing: once a handle is
\* Closed or Terminated its state never changes again, so that no completion
\* is processed for a Terminated handle.
C29_TerminalStatesAbsorbing ==
    [][\A p \in Procs :
          HandleState(procs[p]) \in {"Closed", "Terminated"}
              => HandleState(procs'[p]) = HandleState(procs[p])]_vars

\* C29, amended: a handle goes from Running to Closed or to Terminated, and
\* from Terminated to Closed when its 'close' event is received; Closed alone
\* is absorbing: a Closed handle does not change any more, no signal and no
\* completion is processed for it.
C29_ClosedIsAbsorbing ==
    [][\A p \in Procs :
          /\ HandleState(procs[p]) = "Closed" => procs'[p] = procs[p]
          /\ HandleState(procs[p]) = "Terminated"
                => HandleState(procs'[p]) \in {"Terminated", "Closed"}]_vars

\* close() was called twice; a process has gone from Running to Closed, and
\* another one to Terminated and from there to Closed.
C29_Witness ==
    /\ ncloses = 2
    /\ \E p1, p2 \in Procs :
           /\ procs[p1].closed /\ procs[p1].kills = 0
           /\ procs[p2].closed /\ procs[p2].kills >= 1

\* In this step the process of item u, to which SIGINT was sent, closes with
\* a failure.
TerminatedFails(u) ==
    /\ ~started[u].isQ
    /\ procs[started[u].id].kills >= 1
    /\ ~procs[started[u].id].closed
    /\ Failed(u)'

\* The promise of the batch of item u is rejected.
BatchFailed(u) ==
    \A d \in BatchDeferreds : u \in UnitsOfBatch(d) => defs[d].state = "rejected"

\* No SIGINT is sent in this step.
NoSignalSent == \A p \in Procs : procs'[p].kills = procs[p].kills

\* C30: when an item that was sent SIGINT fails, its batch has failed, and
\* the failure makes no queue call close() again: no SIGINT is sent.
C30_NoCascadeFromTerminated ==
    [][\A u \in Units : TerminatedFails(u) => (BatchFailed(u)' /\ NoSignalSent)]_vars

\* C30, the first part alone: the batch of an item that fails after SIGINT
\* was sent to it has failed.
C30_TerminatedCountsAsFailure ==
    [][\A u \in Units : TerminatedFails(u) => BatchFailed(u)']_vars

\* The processes a close() of queue q has to signal, in the order the claim
\* states: the children ch[q] in the order they were started, the processes
\* of a nested queue in the place of that queue, those that have closed (in
\* pr) left out.
RECURSIVE DepthFirst(_, _, _)
DepthFirst(ch, pr, q) ==
    LET F[i \in 0..Len(ch[q])] ==
            IF i = 0 THEN <<>>
            ELSE F[i - 1] \o
                 (IF isCommandQueue(ch[q][i]) THEN DepthFirst(ch, pr, ch[q][i].id)
                  ELSE IF pr[ch[q][i].id].closed THEN <<>> ELSE <<ch[q][i].id>>)
    IN F[Len(ch[q])]

\* seq is made of the depth-first orders of one or more queues, one after
\* the other: a close() that made the close() of another queue follow.
RECURSIVE Cascade(_, _, _)
Cascade(ch, pr, seq) ==
    \/ seq = <<>>
    \/ \E q \in Queues :
          LET o == DepthFirst(ch, pr, q)
          IN /\ o # <<>>
             /\ Len(o) <= Len(seq)
             /\ SubSeq(seq, 1, Len(o)) = o
             /\ Cascade(ch, pr, SubSeq(seq, Len(o) + 1, Len(seq)))

\* C31: close() sends SIGINT to the outstanding processes of the queue in the
\* order the items were started and depth-first, the processes of a nested
\* queue before the next sibling; the close() made by a failed parallel
\* batch goes through the children of its queue in the same order.
C31_CloseIsDepthFirst ==
    [][/\ Close => sent' = DepthFirst(children, procs, Root)
       /\ Cascade(children', procs', sent')]_vars

\* close() has just sent SIGINT to two processes, for the first time: to the
\* process of a nested queue first, then to that of the item of the root
\* queue started after the nested queue.
C31_Witness ==
    /\ ncloses = 1
    /\ Len(sent) = 2
    /\ defs[procs[sent[1]].def].q # Root
    /\ defs[procs[sent[2]].def].q = Root
    /\ \A p \in Procs : procs[p].kills <= 1

\* The 'close' event of the process of every command that queue q has
\* started in its current run() was received: its promise is settled.
OwnCommandsCompleted(q) ==
    \A u \in Units :
        (started[u].q = q /\ started[u].run = runDeferred[q] /\ ~started[u].isQ)
            => defs[procs[started[u].id].def].state # "pending"

\* C32: areAllClosed() of a queue is true exactly when every command among
\* its children has received its 'close' event; the children that are
\* queues, and their processes, are not looked at.
C32_AreAllClosedOwnCommands ==
    \A q \in Queues : areAllClosed(q) <=> OwnCommandsCompleted(q)

\* areAllClosed() of the root queue is true, a command of the root queue
\* having closed, while a process of a nested queue is still running.
C32_Witness ==
    /\ areAllClosed(Root)
    /\ \E p \in ChildProcs(Root) : procs[p].closed
    /\ \E i \in 1..Len(children[Root]) :
           /\ isCommandQueue(children[Root][i])
           /\ \E p \in ChildProcs(children[Root][i].id) : ~procs[p].closed

\* The items started in this step.
NewUnits == (1..Len(started')) \ (1..Len(started))

\* C33: when an item of an async or parallel batch is started, every item of
\* the batch is started in the same turn, in the order of the batch; the
\* processes started are all running at the end of the turn, none of their
\* 'close' events is handled before the last item is started.
C33_ConcurrentStartsAllInOrder ==
    [][\A u \in NewUnits :
          started'[u].run # 0 /\ queue[started'[u].q][started'[u].b].func # "runSync"
          => LET x == started'[u]
                 batchUnits == {v \in NewUnits :
                                   /\ started'[v].q = x.q /\ started'[v].b = x.b
                                   /\ started'[v].run = x.run}
             IN /\ {started'[v].i : v \in batchUnits} = 1..Len(queue[x.q][x.b].cmds)
                /\ \A v, w \in batchUnits : v < w <=> started'[v].i < started'[w].i
                /\ \A v \in batchUnits :
                      ~started'[v].isQ => ~procs'[started'[v].id].closed]_vars

\* The first item of an async or parallel batch of two commands has failed,
\* and the second one, started with it, has closed with code 0.
C33_Witness ==
    \E u, v \in Units :
        /\ FuncOf(u) # "runSync"
        /\ started[u].q = started[v].q /\ started[u].b = started[v].b
        /\ started[u].i = 1 /\ started[v].i = 2
        /\ ~started[u].isQ /\ Failed(u)
        /\ ~started[v].isQ /\ procs[started[v].id].code = 0 /\ procs[started[v].id].closed

\* The promises of the parallel batches.
ParallelBatches == {d \in BatchDeferreds : defs[d].kind = "parallel"}

RunFailed(q) == runDeferred[q] # 0 /\ defs[runDeferred[q]].state = "rejected"

\* C35: once the run() of a queue has settled to failure, by a failed batch or
\* by close(), that run starts no further item of the queue.
C35_NoStartAfterFailure ==
    [][\A q \in Queues :
          RunFailed(q)
          => \A u \in NewUnits :
                ~(started'[u].q = q /\ started'[u].run = runDeferred[q])]_vars

\* C35 for a run() that failed without close() being called on it: it
\* starts no further item.
C35_NoStartAfterBatchFailure ==
    [][\A q \in Queues :
          (RunFailed(q) /\ cancelled = {})
          => \A u \in NewUnits :
                ~(started'[u].q = q /\ started'[u].run = runDeferred[q])]_vars

\* The run() whose promise is r is the latest run() of its queue.
CurrentRun(r) == runDeferred[defs[r].q] = r

\* C36: when the promise of a run() is resolved, no item started by that run
\* or by the runs of the nested queues under it is still running; and, while
\* it is the latest run() of its queue, no process among the children of the
\* queue and of its nested queues is left unclosed and areAllClosed() is true.
C36_SuccessMeansAllClosed ==
    \A r \in RunDeferreds :
        defs[r].state = "resolved"
        => /\ \A u \in UnitsUnderRun(r) : ~Running(u)
           /\ CurrentRun(r) => (Outstanding(defs[r].q) = {} /\ areAllClosed(defs[r].q))

\* The run() of the root queue has succeeded, having started a nested queue
\* that ran a process of its own, next to a process of the root queue.
C36_Witness ==
    /\ runDeferred[Root] # 0
    /\ defs[runDeferred[Root]].state = "resolved"
    /\ \E u, v \in UnitsUnderRun(runDeferred[Root]) :
           /\ ~started[u].isQ /\ started[u].q # Root
           /\ ~started[v].isQ /\ started[v].q = Root

\* The latest run() of queue q has not settled / has settled.
RunPending(q) == runDeferred[q] # 0 /\ defs[runDeferred[q]].state = "pending"
RunSettled(q) == runDeferred[q] # 0 /\ defs[runDeferred[q]].state # "pending"

NewDeferreds == (1..Len(defs')) \ (1..Len(defs))

\* The step starts batch b of queue q in the run() whose promise is r.
StartsBatch(q, b, r) ==
    \E d \in NewDeferreds :
        /\ defs'[d].kind \in {"sync", "async", "parallel"}
        /\ defs'[d].q = q /\ defs'[d].b = b /\ defs'[d].run = r

\* The run() begun in the step, with promise d, is that of a queue with no
\* batch: it is resolved at the end of the step and has started no item.
EmptyQueueSucceedsAtOnce(d) ==
    (defs'[d].kind = "run" /\ queue'[defs'[d].q] = <<>>)
    => /\ defs'[d].state = "resolved"
       /\ \A u \in NewUnits : started'[u].q # defs'[d].q

\* The sync batch begun in the step, with promise d, has no item: it is
\* resolved at the end of the step, has started no item, and the run() has
\* gone on: the next batch is started in the same step, or, when there is
\* none, the promise of run() is resolved (unless close() rejected it before).
EmptySyncSucceedsAtOnce(d) ==
    (defs'[d].kind = "sync" /\ queue'[defs'[d].q][defs'[d].b].cmds = <<>>)
    => /\ defs'[d].state = "resolved"
       /\ \A u \in NewUnits : ~(started'[u].q = defs'[d].q /\ started'[u].b = defs'[d].b)
       /\ IF defs'[d].b < Len(queue'[defs'[d].q])
          THEN StartsBatch(defs'[d].q, defs'[d].b + 1, defs'[d].run)
          ELSE defs'[defs'[d].run].state = "resolved" \/ defs'[d].run \in cancelled'

\* C38: run() on a queue with no batch resolves its promise in the same turn
\* and starts nothing; a sync batch with no item succeeds in the turn it is
\* started in, and run() goes on to the next batch in that turn.
C38_EmptyRunsSucceedAtOnce ==
    [][\A d \in NewDeferreds :
          EmptyQueueSucceedsAtOnce(d) /\ EmptySyncSucceedsAtOnce(d)]_vars

\* run() of the root queue went through a sync batch with no item to a second
\* batch holding a queue with no batch: all of it has succeeded and no
\* process was started.
C38_Witness ==
    /\ RunSettled(Root) /\ defs[runDeferred[Root]].state = "resolved"
    /\ Len(queue[Root]) = 2
    /\ queue[Root][1] = [func |-> "runSync", cmds |-> <<>>]
    /\ \E u \in Units :
           /\ started[u].q = Root /\ started[u].b = 2 /\ started[u].isQ
           /\ queue[defs[started[u].id].q] = <<>>
           /\ defs[started[u].id].state = "resolved"
    /\ procs = <<>>

\* Batch b of queue q has been started by the run() whose promise is r.
BatchStartedIn(q, b, r) ==
    \E d \in BatchDeferreds : defs[d].q = q /\ defs[d].b = b /\ defs[d].run = r

\* Every batch of queue q before batch b has succeeded in the run() whose
\* promise is r.
EarlierBatchesSucceeded(q, b, r) == \A c \in 1..(b - 1) : AllSucceeded(q, c, r)

\* The batch of entry a, appended while the run() was pending, is started by
\* that run() exactly when all the batches before it have succeeded in it.
RunsAfterEarlierBatches(a) ==
    BatchStartedIn(a.q, a.b, a.run) <=> EarlierBatchesSucceeded(a.q, a.b, a.run)

\* C39: a batch appended to a queue while its run() is pending is started by
\* that run() once all the earlier batches have succeeded in it, and not
\* before; a batch appended after the run() has settled is never started by
\* that run().
C39_AppendedBatches ==
    \A a \in appended :
        IF a.during THEN RunsAfterEarlierBatches(a)
        ELSE ~BatchStartedIn(a.q, a.b, a.run)

\* The same, for the batches appended after a run() that settled by itself:
\* nothing is said of a batch appended after close() was called on the run().
C39_AppendedBatchesWithoutClose ==
    \A a \in appended :
        IF a.during THEN RunsAfterEarlierBatches(a)
        ELSE a.run \notin cancelled => ~BatchStartedIn(a.q, a.b, a.run)

====
